---- MODULE Spec2Model ----
(***************************************************************************)
(* Model of main.py: the Streamlit dashboard of the polar-plant EC study.  *)
(* File names are sequences of code points, so that Unicode normalisation  *)
(* is a computation and not the identity.  A script run is a sequence of   *)
(* blocks (load, gate, sidebar, three tabs); the data directory may change *)
(* at any moment.  Files that exist parse and have the columns the tabs    *)
(* read; the cache is never cleared.  Means are kept as sum and count.     *)
(***************************************************************************)
EXTENDS Integers, Sequences, FiniteSets, TLC

VARIABLES
    dir, target_name, found,       \* resolver alone: directory, target, result
    disk_env, disk_xlsx,           \* DATA_DIR: schools with a CSV, the workbook
    disk_form,                     \* normal form the file system stores names in
    cache_env, cache_growth,       \* st.cache_data entries of the two loaders
    env_reads, growth_reads,       \* executions of each loader's body
    files_read,                    \* files given to pd.read_csv in this run
    pc,                            \* position of the script run
    env_data, growth_data,         \* module-level results of the loaders
    errors,                        \* st.error messages shown in this run
    school_option,                 \* value of the sidebar selectbox
    rendered,                      \* elements drawn in this run
    overview, ts_charts, csv_export,
    cards, ec_counts, xlsx_export,
    exception                      \* uncaught exception that ended the run

vars == <<dir, target_name, found, disk_env, disk_xlsx, disk_form, cache_env, cache_growth,
          env_reads, growth_reads, files_read, pc, env_data, growth_data, errors,
          school_option, rendered, overview, ts_charts, csv_export, cards,
          ec_counts, xlsx_export, exception>>

\* ------------------------------------------------------------------------
\* Unicode normalisation of file names (unicodedata.normalize).
\* A precomposed code point decomposes canonically into a base code point
\* followed by the combining code point "~".
\* ------------------------------------------------------------------------
Precomposed == {"Songdo", "Haneul", "Ara", "Dongsan", "Env"}

BaseOf(c) ==
    CASE c = "Songdo"  -> "songdo"
      [] c = "Haneul"  -> "haneul"
      [] c = "Ara"     -> "ara"
      [] c = "Dongsan" -> "dongsan"
      [] c = "Env"     -> "env"

ComposeOf(b) ==
    CASE b = "songdo"  -> "Songdo"
      [] b = "haneul"  -> "Haneul"
      [] b = "ara"     -> "Ara"
      [] b = "dongsan" -> "Dongsan"
      [] b = "env"     -> "Env"

Composable == {"songdo", "haneul", "ara", "dongsan", "env"}

\* NFD: every precomposed code point is replaced by its decomposition.
RECURSIVE NFD(_)
NFD(s) ==
    IF s = <<>> THEN <<>>
    ELSE IF Head(s) \in Precomposed
         THEN <<BaseOf(Head(s)), "~">> \o NFD(Tail(s))
         ELSE <<Head(s)>> \o NFD(Tail(s))

\* Canonical composition of a decomposed string: a combining code point is
\* combined with the composable code point just before it.
RECURSIVE ComposeRun(_)
ComposeRun(d) ==
    IF d = <<>> THEN <<>>
    ELSE IF Len(d) >= 2 /\ d[1] \in Composable /\ d[2] = "~"
         THEN <<ComposeOf(d[1])>> \o ComposeRun(Tail(Tail(d)))
         ELSE <<d[1]>> \o ComposeRun(Tail(d))

NFC(s) == ComposeRun(NFD(s))

\* ------------------------------------------------------------------------
\* find_file_by_name: index of the first entry that is a regular file and
\* whose name matches the target; 0 stands for None.
\* ------------------------------------------------------------------------
\* Variant that compares the raw on-disk name with the composed target.
RECURSIVE FindFromRaw(_, _, _, _)
FindFromRaw(directory, target_nfc, target_nfd, i) ==
    IF i > Len(directory) THEN 0
    ELSE IF ~directory[i].is_file THEN FindFromRaw(directory, target_nfc, target_nfd, i + 1)
    ELSE IF directory[i].name = target_nfc
         THEN i
         ELSE FindFromRaw(directory, target_nfc, target_nfd, i + 1)

RECURSIVE FindFrom(_, _, _, _)
FindFrom(directory, target_nfc, target_nfd, i) ==
    IF i > Len(directory) THEN 0
    ELSE IF ~directory[i].is_file THEN FindFrom(directory, target_nfc, target_nfd, i + 1)
    ELSE IF \/ NFC(directory[i].name) = target_nfc
            \/ NFD(directory[i].name) = target_nfd
         THEN i
         ELSE FindFrom(directory, target_nfc, target_nfd, i + 1)

find_file_by_name(directory, target) ==
    LET target_nfc == NFC(target)
        target_nfd == NFD(target)
    IN  FindFrom(directory, target_nfc, target_nfd, 1)

\* ------------------------------------------------------------------------
\* Reference tables (SCHOOL_EC_INFO, SCHOOL_COLOR) in insertion order.
\* ------------------------------------------------------------------------
SchoolKeys == <<"Songdo", "Haneul", "Ara", "Dongsan">>

Schools == {SchoolKeys[i] : i \in 1..Len(SchoolKeys)}

SCHOOL_EC_INFO == [s \in Schools |->
    CASE s = "Songdo"  -> 1
      [] s = "Haneul"  -> 2
      [] s = "Ara"     -> 4
      [] s = "Dongsan" -> 8]

SCHOOL_COLOR == [s \in Schools |->
    CASE s = "Songdo"  -> "#1f77b4"
      [] s = "Haneul"  -> "#2ca02c"
      [] s = "Ara"     -> "#ff7f0e"
      [] s = "Dongsan" -> "#d62728"]

\* SCHOOL_EC_INFO.get(sheet, None): the null EC is NoneEC.
NoneEC == -1

\* Variant with 0 as the default of the lookup.
EcOfZero(sheet) == IF sheet \in Schools THEN SCHOOL_EC_INFO[sheet] ELSE 0

EcOf(sheet) == IF sheet \in Schools THEN SCHOOL_EC_INFO[sheet] ELSE NoneEC

\* f"{school}_<env>.csv" as written in the source (composed form).
EnvFileName(school) == <<school, "Env", ".csv">>

\* ------------------------------------------------------------------------
\* DATA_DIR: what iterdir() yields for the current disk contents.
\* ------------------------------------------------------------------------
MaxReadings == 1
MaxPlants == 1

NameForms == {"NFC", "NFD"}

EnvFileRows(school) ==
    [j \in 1..MaxReadings |-> [time |-> j, ec |-> SCHOOL_EC_INFO[school] + j]]

SampleWeight(sheet) ==
    CASE sheet = "Songdo"  -> 5
      [] sheet = "Haneul"  -> 9
      [] sheet = "Ara"     -> 3
      [] sheet = "Dongsan" -> 2
      [] OTHER             -> 7

SheetLists == {
    <<"Songdo", "Haneul", "Ara", "Dongsan">>,
    <<"Dongsan", "Songdo", "Ara", "Haneul">>,
    <<"Songdo", "Haneul", "Ara">>,
    <<"Songdo", "Haneul", "Ara", "Dongsan", "Etc">>,
    <<"Etc">> }

Book(names, n) ==
    [i \in 1..Len(names) |->
        [name |-> names[i],
         rows |-> [j \in 1..n |-> [weight |-> SampleWeight(names[i]) + j - 1]]]]

Workbooks ==
    {Book(names, n) : names \in SheetLists, n \in 1..MaxPlants}
    \cup {Book(<<"Songdo", "Haneul", "Ara", "Dongsan">>, 0)}

NoWorkbook == [present |-> FALSE, sheets |-> <<>>]

XlsxStates == {NoWorkbook} \cup {[present |-> TRUE, sheets |-> w] : w \in Workbooks}

RECURSIVE EnvEntries(_, _, _)
EnvEntries(env, form, i) ==
    IF i > Len(SchoolKeys) THEN <<>>
    ELSE LET s == SchoolKeys[i]
             e == [name    |-> IF form = "NFD" THEN NFD(EnvFileName(s))
                                               ELSE NFC(EnvFileName(s)),
                   is_file |-> TRUE,
                   rows    |-> EnvFileRows(s),
                   sheets  |-> <<>>]
         IN  (IF s \in env THEN <<e>> ELSE <<>>) \o EnvEntries(env, form, i + 1)

DATA_DIR(env, xlsx, form) ==
    EnvEntries(env, form, 1) \o
    (IF xlsx.present
     THEN <<[name |-> <<"Growth", ".xlsx">>, is_file |-> TRUE,
             rows |-> <<>>, sheets |-> xlsx.sheets]>>
     ELSE <<>>)

\* ------------------------------------------------------------------------
\* load_environment_data: the loop over SCHOOL_EC_INFO.keys().  The result
\* records the return value (ok = FALSE is None), the st.error messages and
\* the files passed to pd.read_csv.
\* ------------------------------------------------------------------------
TagRows(rows, school) ==
    [j \in 1..Len(rows) |-> [time |-> rows[j].time, ec |-> rows[j].ec, school |-> school]]

\* Variant that skips a school without a file and goes on.
RECURSIVE LoadEnvFromSkip(_, _, _, _)
LoadEnvFromSkip(directory, i, acc, read) ==
    IF i > Len(SchoolKeys)
    THEN [ok |-> TRUE, items |-> acc, errors |-> <<>>, read |-> read]
    ELSE LET school    == SchoolKeys[i]
             filename  == EnvFileName(school)
             file_path == find_file_by_name(directory, filename)
         IN  IF file_path = 0
             THEN LoadEnvFromSkip(directory, i + 1, acc, read)
             ELSE LoadEnvFromSkip(directory, i + 1,
                      Append(acc, [key |-> school,
                                   df  |-> TagRows(directory[file_path].rows, school)]),
                      Append(read, directory[file_path].name))

RECURSIVE LoadEnvFrom(_, _, _, _)
LoadEnvFrom(directory, i, acc, read) ==
    IF i > Len(SchoolKeys)
    THEN [ok |-> TRUE, items |-> acc, errors |-> <<>>, read |-> read]
    ELSE LET school    == SchoolKeys[i]
             filename  == EnvFileName(school)
             file_path == find_file_by_name(directory, filename)
         IN  IF file_path = 0
             THEN [ok |-> FALSE, items |-> <<>>, errors |-> <<filename>>, read |-> read]
             ELSE LoadEnvFrom(directory, i + 1,
                      Append(acc, [key |-> school,
                                   df  |-> TagRows(directory[file_path].rows, school)]),
                      Append(read, directory[file_path].name))

load_environment_data(directory) == LoadEnvFrom(directory, 1, <<>>, <<>>)

\* ------------------------------------------------------------------------
\* load_growth_data: first entry with suffix .xlsx, then one item per sheet.
\* ------------------------------------------------------------------------
Lower(ext) == IF ext = ".XLSX" THEN ".xlsx" ELSE ext

Suffix(name) == IF name = <<>> THEN "" ELSE name[Len(name)]

RECURSIVE FirstXlsx(_, _)
FirstXlsx(directory, i) ==
    IF i > Len(directory) THEN 0
    ELSE IF Lower(Suffix(directory[i].name)) = ".xlsx" THEN i
    ELSE FirstXlsx(directory, i + 1)

ParseSheet(sheet) ==
    [j \in 1..Len(sheet.rows) |->
        [weight |-> sheet.rows[j].weight, school |-> sheet.name, ec |-> EcOf(sheet.name)]]

load_growth_data(directory) ==
    LET xlsx_path == FirstXlsx(directory, 1)
    IN  IF xlsx_path = 0
        THEN [ok |-> FALSE, items |-> <<>>, errors |-> <<"xlsx">>]
        ELSE LET sheets == directory[xlsx_path].sheets
             IN  [ok     |-> TRUE,
                  items  |-> [k \in 1..Len(sheets) |->
                                 [key |-> sheets[k].name, df |-> ParseSheet(sheets[k])]],
                  errors |-> <<>>]

\* ------------------------------------------------------------------------
\* @st.cache_data: the first call runs the body and stores what it returned
\* (None included) with the messages it showed; later calls replay the entry.
\* ------------------------------------------------------------------------
NoneValue == [ok |-> FALSE, items |-> <<>>]

EmptyCache == [set |-> FALSE, value |-> NoneValue, msgs |-> <<>>]

\* Variant that never finds an entry.
cache_data_miss(entry, computed) ==
    [hit |-> FALSE,
     entry |-> [set   |-> TRUE,
                value |-> [ok |-> computed.ok, items |-> computed.items],
                msgs  |-> computed.errors]]

cache_data(entry, computed) ==
    IF entry.set
    THEN [hit |-> TRUE, entry |-> entry]
    ELSE [hit |-> FALSE,
          entry |-> [set   |-> TRUE,
                     value |-> [ok |-> computed.ok, items |-> computed.items],
                     msgs  |-> computed.errors]]

\* ------------------------------------------------------------------------
\* Helpers on the loaded mappings (dicts kept in insertion order).
\* ------------------------------------------------------------------------
Keys(items) == [k \in 1..Len(items) |-> items[k].key]

KeySet(items) == {items[k].key : k \in 1..Len(items)}

DictGet(items, key) == items[CHOOSE k \in 1..Len(items) : items[k].key = key].df

RECURSIVE Concat(_, _)
Concat(items, i) ==
    IF i > Len(items) THEN <<>> ELSE items[i].df \o Concat(items, i + 1)

RECURSIVE TotalCount(_, _)
TotalCount(items, i) ==
    IF i > Len(items) THEN 0 ELSE Len(items[i].df) + TotalCount(items, i + 1)

RECURSIVE SortedSeq(_)
SortedSeq(S) ==
    IF S = {} THEN <<>>
    ELSE LET m == CHOOSE x \in S : \A y \in S : x <= y
         IN  <<m>> \o SortedSeq(S \ {m})

RECURSIVE SumWeight(_, _, _)
SumWeight(rows, ec, i) ==
    IF i > Len(rows) THEN 0
    ELSE (IF rows[i].ec = ec THEN rows[i].weight ELSE 0) + SumWeight(rows, ec, i + 1)

RECURSIVE CountEc(_, _, _)
CountEc(rows, ec, i) ==
    IF i > Len(rows) THEN 0
    ELSE (IF rows[i].ec = ec THEN 1 ELSE 0) + CountEc(rows, ec, i + 1)

\* growth_all.groupby("ec"): sorted group keys, null keys dropped.
GroupKeys(rows) == SortedSeq({rows[i].ec : i \in 1..Len(rows)} \ {NoneEC})

\* ...["weight"].mean().reset_index(): the mean kept as sum / n.
EcGroup(rows) ==
    LET keys == GroupKeys(rows)
    IN  [g \in 1..Len(keys) |->
            [ec |-> keys[g], sum |-> SumWeight(rows, keys[g], 1), n |-> CountEc(rows, keys[g], 1)]]

MeanLess(a, b) == a.sum * b.n < b.sum * a.n

\* Variant that takes the last row holding the largest mean.
IdxMaxLast(group) ==
    CHOOSE i \in 1..Len(group) :
        /\ \A j \in 1..Len(group) : ~MeanLess(group[i], group[j])
        /\ \A j \in (i + 1)..Len(group) : MeanLess(group[j], group[i])

\* idxmax(): the first row holding the largest mean.
IdxMax(group) ==
    CHOOSE i \in 1..Len(group) :
        /\ \A j \in 1..Len(group) : ~MeanLess(group[i], group[j])
        /\ \A j \in 1..(i - 1) : MeanLess(group[j], group[i])

MetricCards(group) ==
    LET max_ec == group[IdxMax(group)].ec
    IN  [i \in 1..Len(group) |->
            [ec |-> group[i].ec, sum |-> group[i].sum, n |-> group[i].n,
             label |-> IF group[i].ec = max_ec THEN "optimal" ELSE ""]]

EcSizes(rows) ==
    LET keys == GroupKeys(rows)
    IN  [g \in 1..Len(keys) |-> [ec |-> keys[g], n |-> CountEc(rows, keys[g], 1)]]

\* tab2: schools_to_plot and one figure per school.
SelectOptions == {"All"} \cup Schools

\* Variant that ignores the selection.
SchoolsToPlotAll(option, env_items) == Keys(env_items)

SchoolsToPlot(option, env_items) ==
    IF option = "All" THEN Keys(env_items) ELSE <<option>>

TimeSeriesCharts(option, env_items) ==
    LET schools == SchoolsToPlot(option, env_items)
    IN  [k \in 1..Len(schools) |->
            [title |-> schools[k],
             data  |-> DictGet(env_items, schools[k]),
             hline |-> SCHOOL_EC_INFO[schools[k]]]]

OverviewRows(growth_items) ==
    [k \in 1..Len(growth_items) |->
        [school |-> growth_items[k].key,
         ec     |-> SCHOOL_EC_INFO[growth_items[k].key],
         count  |-> Len(growth_items[k].df),
         color  |-> SCHOOL_COLOR[growth_items[k].key]]]

NoOverview == [rows |-> <<>>, total |-> 0]

\* ------------------------------------------------------------------------
\* The script run, block by block.
\* ------------------------------------------------------------------------
runOutputs == <<errors, school_option, rendered, overview, ts_charts, csv_export,
                cards, ec_counts, xlsx_export, exception>>

resolver == <<dir, target_name, found>>

disk == <<disk_env, disk_xlsx, disk_form>>

caches == <<cache_env, cache_growth, env_reads, growth_reads>>

Init ==
    /\ dir = <<>> /\ target_name = <<>> /\ found = 0
    /\ disk_env \in SUBSET Schools
    /\ disk_xlsx \in XlsxStates
    /\ disk_form \in NameForms
    /\ cache_env = EmptyCache /\ cache_growth = EmptyCache
    /\ env_reads = 0 /\ growth_reads = 0
    /\ files_read = <<>>
    /\ pc = "start"
    /\ env_data = NoneValue /\ growth_data = NoneValue
    /\ errors = <<>>
    /\ school_option = "All"
    /\ rendered = {}
    /\ overview = NoOverview
    /\ ts_charts = <<>> /\ csv_export = <<>>
    /\ cards = <<>> /\ ec_counts = <<>> /\ xlsx_export = <<>>
    /\ exception = ""

\* lines 114-116: both loaders are called, through the cache.
LoadData ==
    /\ pc = "start"
    /\ \E directory \in {DATA_DIR(disk_env, disk_xlsx, disk_form)} :
       \E env_run \in {load_environment_data(directory)},
          gr_run \in {load_growth_data(directory)} :
       LET env_call == cache_data(cache_env, env_run)
           gr_call  == cache_data(cache_growth, gr_run)
       IN  /\ cache_env' = env_call.entry
           /\ cache_growth' = gr_call.entry
           /\ env_data' = env_call.entry.value
           /\ growth_data' = gr_call.entry.value
           /\ errors' = env_call.entry.msgs \o gr_call.entry.msgs
           /\ env_reads' = IF env_call.hit THEN env_reads ELSE env_reads + 1
           /\ growth_reads' = IF gr_call.hit THEN growth_reads ELSE growth_reads + 1
           /\ files_read' = IF env_call.hit THEN <<>> ELSE env_run.read
    /\ pc' = "loaded"
    /\ UNCHANGED <<resolver, disk, school_option, rendered, overview, ts_charts,
                   csv_export, cards, ec_counts, xlsx_export, exception>>

\* Variant without the st.stop() gate.
GateNoStop ==
    /\ pc = "loaded"
    /\ pc' = "sidebar"
    /\ UNCHANGED <<resolver, disk, caches, files_read, env_data, growth_data, runOutputs>>

\* lines 118-119: st.stop() when either result is None.
Gate ==
    /\ pc = "loaded"
    /\ pc' = IF ~env_data.ok \/ ~growth_data.ok THEN "stopped" ELSE "sidebar"
    /\ UNCHANGED <<resolver, disk, caches, files_read, env_data, growth_data, runOutputs>>

\* lines 124-138: sidebar selectbox, title, tabs.
Sidebar ==
    /\ pc = "sidebar"
    /\ \E option \in SelectOptions : school_option' = option
    /\ rendered' = rendered \cup {"sidebar", "title", "tabs"}
    /\ pc' = "tab1"
    /\ UNCHANGED <<resolver, disk, caches, files_read, env_data, growth_data, errors,
                   overview, ts_charts, csv_export, cards, ec_counts, xlsx_export,
                   exception>>

\* Variant whose overview looks the school up with .get().
Tab1Lenient ==
    /\ pc = "tab1"
    /\ overview' = [rows  |-> [k \in 1..Len(growth_data.items) |->
                                 [school |-> growth_data.items[k].key,
                                  ec     |-> EcOf(growth_data.items[k].key),
                                  count  |-> Len(growth_data.items[k].df),
                                  color  |-> ""]],
                    total |-> TotalCount(growth_data.items, 1)]
    /\ rendered' = rendered \cup {"tab1_intro", "overview", "metrics"}
    /\ pc' = "tab2"
    /\ UNCHANGED <<resolver, disk, caches, files_read, env_data, growth_data, errors,
                   school_option, ts_charts, csv_export, cards, ec_counts, xlsx_export,
                   exception>>

\* lines 143-179: overview table; SCHOOL_EC_INFO[school] raises KeyError for
\* a sheet that is not in the table.
Tab1 ==
    /\ pc = "tab1"
    /\ IF KeySet(growth_data.items) \subseteq Schools
       THEN /\ overview' = [rows  |-> OverviewRows(growth_data.items),
                            total |-> TotalCount(growth_data.items, 1)]
            /\ rendered' = rendered \cup {"tab1_intro", "overview", "metrics"}
            /\ exception' = exception
            /\ pc' = "tab2"
       ELSE /\ overview' = overview
            /\ rendered' = rendered \cup {"tab1_intro"}
            /\ exception' = "KeyError"
            /\ pc' = "crashed"
    /\ UNCHANGED <<resolver, disk, caches, files_read, env_data, growth_data, errors,
                   school_option, ts_charts, csv_export, cards, ec_counts, xlsx_export>>

\* Variant whose CSV download holds the selected schools only.
Tab2FilteredExport ==
    /\ pc = "tab2"
    /\ ts_charts' = TimeSeriesCharts(school_option, env_data.items)
    /\ csv_export' = Concat([k \in 1..Len(ts_charts') |->
                                [key |-> ts_charts'[k].title, df |-> ts_charts'[k].data]], 1)
    /\ rendered' = rendered \cup {"avg_chart", "time_series", "csv_download"}
    /\ pc' = "tab3"
    /\ UNCHANGED <<resolver, disk, caches, files_read, env_data, growth_data, errors,
                   school_option, overview, cards, ec_counts, xlsx_export, exception>>

\* lines 184-273: comparison chart, time series, CSV download.
Tab2 ==
    /\ pc = "tab2"
    /\ ts_charts' = TimeSeriesCharts(school_option, env_data.items)
    /\ csv_export' = Concat(env_data.items, 1)
    /\ rendered' = rendered \cup {"avg_chart", "time_series", "csv_download"}
    /\ pc' = "tab3"
    /\ UNCHANGED <<resolver, disk, caches, files_read, env_data, growth_data, errors,
                   school_option, overview, cards, ec_counts, xlsx_export, exception>>

\* lines 278-383: per-EC cards and charts, XLSX download; idxmax() raises
\* ValueError when there is no group.
Tab3 ==
    /\ pc = "tab3"
    /\ LET growth_all == Concat(growth_data.items, 1)
           ec_group   == EcGroup(growth_all)
       IN  IF ec_group = <<>>
           THEN /\ exception' = "ValueError"
                /\ pc' = "crashed"
                /\ UNCHANGED <<cards, ec_counts, xlsx_export, rendered>>
           ELSE /\ cards' = MetricCards(ec_group)
                /\ ec_counts' = EcSizes(growth_all)
                /\ xlsx_export' = growth_all
                /\ rendered' = rendered \cup {"cards", "ec_charts", "box", "scatter",
                                              "xlsx_download"}
                /\ exception' = exception
                /\ pc' = "done"
    /\ UNCHANGED <<resolver, disk, caches, files_read, env_data, growth_data, errors,
                   school_option, overview, ts_charts, csv_export>>

\* A user interaction re-runs the script from the top in the same process.
Rerun ==
    /\ pc \in {"stopped", "crashed", "done"}
    /\ pc' = "start"
    /\ env_data' = NoneValue /\ growth_data' = NoneValue
    /\ errors' = <<>> /\ files_read' = <<>>
    /\ school_option' = "All"
    /\ rendered' = {}
    /\ overview' = NoOverview
    /\ ts_charts' = <<>> /\ csv_export' = <<>>
    /\ cards' = <<>> /\ ec_counts' = <<>> /\ xlsx_export' = <<>>
    /\ exception' = ""
    /\ UNCHANGED <<resolver, disk, caches>>

\* The data directory changes under the running process.
WriteEnvFile ==
    /\ \E s \in Schools \ disk_env : disk_env' = disk_env \cup {s}
    /\ UNCHANGED <<resolver, disk_xlsx, disk_form, caches, files_read, pc, env_data, growth_data,
                   runOutputs>>

DeleteEnvFile ==
    /\ \E s \in disk_env : disk_env' = disk_env \ {s}
    /\ UNCHANGED <<resolver, disk_xlsx, disk_form, caches, files_read, pc, env_data, growth_data,
                   runOutputs>>

WriteWorkbook ==
    /\ \E x \in XlsxStates :
          /\ x # disk_xlsx
          /\ disk_xlsx' = x
    /\ UNCHANGED <<resolver, disk_env, disk_form, caches, files_read, pc, env_data, growth_data,
                   runOutputs>>

Next ==
    \/ LoadData \/ Gate \/ Sidebar \/ Tab1 \/ Tab2 \/ Tab3 \/ Rerun
    \/ WriteEnvFile \/ DeleteEnvFile \/ WriteWorkbook

Spec == Init /\ [][Next]_vars

\* ------------------------------------------------------------------------
\* Specification of the resolver alone.  The names on disk and the targets
\* are the spellings of the program's own file names: every precomposed code
\* point either composed or decomposed (NFC, NFD and the mixed spellings).
\* ------------------------------------------------------------------------
MaxDir == 2

RECURSIVE Spellings(_)
Spellings(name) ==
    IF name = <<>> THEN {<<>>}
    ELSE LET heads == IF Head(name) \in Precomposed
                      THEN {<<Head(name)>>, <<BaseOf(Head(name)), "~">>}
                      ELSE {<<Head(name)>>}
         IN  {h \o t : h \in heads, t \in Spellings(Tail(name))}

ResolveSchools == {SchoolKeys[1], SchoolKeys[2]}

Names == UNION {Spellings(EnvFileName(s)) : s \in ResolveSchools}

RECURSIVE SeqsUpTo(_, _)
SeqsUpTo(S, n) ==
    IF n = 0 THEN {<<>>}
    ELSE LET shorter == SeqsUpTo(S, n - 1)
         IN  shorter \cup {Append(s, x) : s \in {t \in shorter : Len(t) = n - 1}, x \in S}

ResolveEntries == [name : Names, is_file : BOOLEAN]

DistinctNames(d) == \A i, j \in 1..Len(d) : i # j => d[i].name # d[j].name

ResolveDirs == {d \in SeqsUpTo(ResolveEntries, MaxDir) : DistinctNames(d)}

ResolveInit ==
    /\ dir \in ResolveDirs
    /\ target_name \in Names
    /\ found = 0
    /\ pc = "call"
    /\ disk_env = {}
    /\ disk_xlsx = NoWorkbook
    /\ disk_form = "NFC"
    /\ cache_env = EmptyCache /\ cache_growth = EmptyCache
    /\ env_reads = 0 /\ growth_reads = 0
    /\ files_read = <<>>
    /\ env_data = NoneValue /\ growth_data = NoneValue
    /\ errors = <<>>
    /\ school_option = "All"
    /\ rendered = {}
    /\ overview = NoOverview
    /\ ts_charts = <<>> /\ csv_export = <<>>
    /\ cards = <<>> /\ ec_counts = <<>> /\ xlsx_export = <<>>
    /\ exception = ""

Resolve ==
    /\ pc = "call"
    /\ found' = find_file_by_name(dir, target_name)
    /\ pc' = "returned"
    /\ UNCHANGED <<dir, target_name, disk, caches, files_read, env_data, growth_data,
                   runOutputs>>

ResolveNext == Resolve

SpecResolve == ResolveInit /\ [][ResolveNext]_vars

\* ------------------------------------------------------------------------
\* Specification of one run, with the default selection, over a complete set
\* of CSV files and any small
\* workbook of known sheets: every non-empty choice of sheets, every sheet
\* with up to MaxPlants rows of fresh weights in 1..MaxWeight.
\* ------------------------------------------------------------------------
MaxWeight == 2

WeightRows == {[j \in 1..Len(w) |-> [weight |-> w[j]]] : w \in SeqsUpTo(1..MaxWeight, MaxPlants)}

RECURSIVE SheetChoices(_)
SheetChoices(i) ==
    IF i > Len(SchoolKeys) THEN {<<>>}
    ELSE LET later == SheetChoices(i + 1)
         IN  later \cup {<<[name |-> SchoolKeys[i], rows |-> r]>> \o t : r \in WeightRows, t \in later}

GrowthBooks == SheetChoices(1) \ {<<>>}

GrowthInit ==
    /\ dir = <<>> /\ target_name = <<>> /\ found = 0
    /\ disk_env = Schools
    /\ disk_xlsx \in {[present |-> TRUE, sheets |-> w] : w \in GrowthBooks}
    /\ disk_form = "NFD"
    /\ cache_env = EmptyCache /\ cache_growth = EmptyCache
    /\ env_reads = 0 /\ growth_reads = 0
    /\ files_read = <<>>
    /\ pc = "start"
    /\ env_data = NoneValue /\ growth_data = NoneValue
    /\ errors = <<>>
    /\ school_option = "All"
    /\ rendered = {}
    /\ overview = NoOverview
    /\ ts_charts = <<>> /\ csv_export = <<>>
    /\ cards = <<>> /\ ec_counts = <<>> /\ xlsx_export = <<>>
    /\ exception = ""

\* The selectbox is left on its first option.
SidebarDefault == Sidebar /\ school_option' = "All"

GrowthNext == LoadData \/ Gate \/ SidebarDefault \/ Tab1 \/ Tab2 \/ Tab3

SpecGrowth == GrowthInit /\ [][GrowthNext]_vars

\* ------------------------------------------------------------------------
\* Properties.
\* ------------------------------------------------------------------------

\* C1 as stated: any run whose load finds a CSV file or the workbook missing
\* from the directory gets None from a loader, and so is stopped at the gate.
C1_AnyRunWithMissingFileStops ==
    [][ (pc = "start" /\ pc' = "loaded" /\ (disk_env # Schools \/ ~disk_xlsx.present))
            => (~env_data'.ok \/ ~growth_data'.ok) ]_vars

\* C1 as amended: a loader whose body runs (nothing cached yet) while one of
\* its files is missing returns None and shows an error, a cached None is
\* returned again on later runs, and a run whose env_data or growth_data is
\* None goes from the check at line 118 to st.stop() with nothing rendered
\* (no sidebar, tab, chart or download) until the next run starts.
C1_MissingFileStopsRun ==
    [][ /\ (pc = "start" /\ pc' = "loaded" /\ ~cache_env.set /\ disk_env # Schools)
            => (~env_data'.ok /\ errors' # <<>>)
        /\ (pc = "start" /\ pc' = "loaded" /\ ~cache_growth.set /\ ~disk_xlsx.present)
            => (~growth_data'.ok /\ errors' # <<>>)
        /\ (pc = "start" /\ pc' = "loaded" /\ cache_env.set /\ ~cache_env.value.ok)
            => ~env_data'.ok
        /\ (pc = "start" /\ pc' = "loaded" /\ cache_growth.set /\ ~cache_growth.value.ok)
            => ~growth_data'.ok
        /\ (pc = "loaded" /\ (~env_data.ok \/ ~growth_data.ok))
            => pc' \in {"loaded", "stopped"}
        /\ pc' = "stopped"
            => /\ rendered' = {} /\ ts_charts' = <<>> /\ csv_export' = <<>>
               /\ cards' = <<>> /\ xlsx_export' = <<>> /\ overview' = NoOverview
        /\ pc = "stopped" => pc' \in {"stopped", "start"} ]_vars

C1_Witness ==
    /\ pc = "stopped"
    /\ disk_env # Schools
    /\ env_reads = 1
    /\ ~env_data.ok
    /\ growth_data.ok
    /\ errors # <<>>

\* C2: whenever both loaders returned a mapping, the keys of env_data and
\* the keys of growth_data are each exactly the four schools.
C2_BothKeySetsAreTheFourSchools ==
    (pc \notin {"start"} /\ env_data.ok /\ growth_data.ok)
        => /\ KeySet(env_data.items) = Schools
           /\ KeySet(growth_data.items) = Schools

\* Canonical equivalence, and the first regular file with an equivalent name.
CanonEq(a, b) == NFD(a) = NFD(b)

FirstEquivalent(d, t) ==
    IF \E i \in 1..Len(d) : d[i].is_file /\ CanonEq(d[i].name, t)
    THEN CHOOSE i \in 1..Len(d) :
            /\ d[i].is_file /\ CanonEq(d[i].name, t)
            /\ \A j \in 1..(i - 1) : ~(d[j].is_file /\ CanonEq(d[j].name, t))
    ELSE 0

\* A name, or a directory entry by entry, put in a normal form or left as is.
Renorm(form, name) ==
    CASE form = "NFC" -> NFC(name)
      [] form = "NFD" -> NFD(name)
      [] OTHER        -> name

RECURSIVE RenormFrom(_, _, _)
RenormFrom(forms, d, i) ==
    IF i > Len(d) THEN <<>>
    ELSE <<[name |-> Renorm(forms[i], d[i].name), is_file |-> d[i].is_file]>>
         \o RenormFrom(forms, d, i + 1)

RenormDir(forms, d) == RenormFrom(forms, d, 1)

\* C3: find_file_by_name returns the first regular file whose name is
\* canonically equivalent to the target (None when there is none), and the
\* answer is the same when the target or the names on disk are replaced by
\* their NFC or NFD forms.
C3_ResolveUpToNormalisation ==
    pc = "returned" =>
        /\ found = FirstEquivalent(dir, target_name)
        /\ \A tf \in {"NFC", "NFD", "raw"} :
             \A forms \in [1..Len(dir) -> {"NFC", "NFD", "raw"}] :
                \A d \in {RenormDir(forms, dir)}, t \in {Renorm(tf, target_name)} :
                   find_file_by_name(d, t) = found

C3_Witness ==
    /\ pc = "returned"
    /\ found = 2
    /\ Len(dir) = 2
    /\ dir[2].name # target_name
    /\ NFC(target_name) = target_name
    /\ NFD(dir[2].name) = dir[2].name
    /\ ~dir[1].is_file /\ CanonEq(dir[1].name, target_name)

\* Sum of f over the rows of a table, and the rows of all tables of a mapping.
RECURSIVE SumSeq(_, _)
SumSeq(nums, i) == IF i > Len(nums) THEN 0 ELSE nums[i] + SumSeq(nums, i + 1)

SumOver(rows, f(_)) == SumSeq([j \in 1..Len(rows) |-> f(rows[j])], 1)

RECURSIVE AllRows(_)
AllRows(items) ==
    IF items = <<>> THEN <<>>
    ELSE AllRows(SubSeq(items, 1, Len(items) - 1)) \o items[Len(items)].df

C5_ChartsFollowSelection ==
    "time_series" \in rendered =>
        /\ \A k \in 1..Len(ts_charts) :
              /\ ts_charts[k].title \in Schools
              /\ ts_charts[k].hline = SCHOOL_EC_INFO[ts_charts[k].title]
              /\ \A j \in 1..Len(ts_charts[k].data) :
                    ts_charts[k].data[j].school = ts_charts[k].title
              /\ \E m \in 1..Len(env_data.items) :
                    /\ env_data.items[m].key = ts_charts[k].title
                    /\ env_data.items[m].df = ts_charts[k].data
        /\ school_option # "All" =>
              /\ Len(ts_charts) = 1
              /\ ts_charts[1].title = school_option
        /\ school_option = "All" =>
              /\ Len(ts_charts) = 4
              /\ {ts_charts[k].title : k \in 1..Len(ts_charts)} = Schools

C5_Witness ==
    /\ "time_series" \in rendered
    /\ school_option = "Ara"
    /\ Len(ts_charts) = 1
    /\ ts_charts[1].hline = 4
    /\ ts_charts[1].data # <<>>

\* C6: whatever school is selected, the CSV download holds the rows of all
\* environment tables and the XLSX download the rows of all growth tables,
\* table after table, as kept in the loaders' cache.
C6_ExportsIgnoreSelection ==
    /\ "csv_download" \in rendered =>
          /\ csv_export = AllRows(cache_env.value.items)
          /\ csv_export = AllRows(env_data.items)
    /\ "xlsx_download" \in rendered =>
          /\ xlsx_export = AllRows(cache_growth.value.items)
          /\ xlsx_export = AllRows(growth_data.items)

C6_Witness ==
    /\ "xlsx_download" \in rendered
    /\ school_option = "Haneul"
    /\ Len(ts_charts) = 1
    /\ Len(csv_export) = 4 * Len(ts_charts[1].data)
    /\ Len(csv_export) > 0
    /\ Len(xlsx_export) > 0
    /\ \E j \in 1..Len(xlsx_export) : xlsx_export[j].school # school_option

\* C7: each loader's body runs at most once in the process; once a loader
\* has an entry in the cache the entry never changes, and every later run
\* gets exactly the cached collections, with no file read, whatever the
\* directory holds by then.
C7_LoadedOncePerProcess ==
    [][ /\ env_reads' <= 1 /\ growth_reads' <= 1
        /\ cache_env.set => (cache_env' = cache_env /\ env_reads' = env_reads)
        /\ cache_growth.set => (cache_growth' = cache_growth /\ growth_reads' = growth_reads)
        /\ (pc = "start" /\ pc' = "loaded" /\ cache_env.set)
              => (env_data' = cache_env.value /\ files_read' = <<>>)
        /\ (pc = "start" /\ pc' = "loaded" /\ cache_growth.set)
              => growth_data' = cache_growth.value
        /\ (pc # "start" /\ pc' # "start")
              => (env_data' = env_data /\ growth_data' = growth_data) ]_vars

C7_Witness ==
    /\ pc = "loaded"
    /\ env_data.ok /\ growth_data.ok
    /\ files_read = <<>>
    /\ env_reads = 1 /\ growth_reads = 1
    /\ disk_env # Schools
    /\ ~disk_xlsx.present

\* C8: when load_environment_data runs, it goes through the schools in the
\* order of the reference table: with no file missing it returns the four
\* tables in that order, every row tagged with its school; otherwise it
\* reports the file name of the first school without a file, has read the
\* files of the schools before it and no other, and returns None.
C8_EnvLoaderAbortsAtFirstMissing ==
    [][ (pc = "start" /\ pc' = "loaded" /\ ~cache_env.set) =>
          LET missing == {i \in 1..Len(SchoolKeys) : SchoolKeys[i] \notin disk_env}
          IN  IF missing = {}
              THEN /\ env_data'.ok
                   /\ Keys(env_data'.items) = SchoolKeys
                   /\ Len(files_read') = Len(SchoolKeys)
                   /\ \A k \in 1..Len(SchoolKeys) :
                         /\ CanonEq(files_read'[k], EnvFileName(SchoolKeys[k]))
                         /\ Len(env_data'.items[k].df) = MaxReadings
                         /\ \A j \in 1..Len(env_data'.items[k].df) :
                               /\ env_data'.items[k].df[j].school = SchoolKeys[k]
                               /\ env_data'.items[k].df[j].time = EnvFileRows(SchoolKeys[k])[j].time
                               /\ env_data'.items[k].df[j].ec = EnvFileRows(SchoolKeys[k])[j].ec
                   /\ cache_env'.msgs = <<>>
              ELSE LET first == CHOOSE i \in missing : \A j \in missing : i <= j
                   IN  /\ ~env_data'.ok
                       /\ env_data'.items = <<>>
                       /\ cache_env'.msgs = <<EnvFileName(SchoolKeys[first])>>
                       /\ errors'[1] = EnvFileName(SchoolKeys[first])
                       /\ Len(files_read') = first - 1
                       /\ \A k \in 1..(first - 1) :
                             CanonEq(files_read'[k], EnvFileName(SchoolKeys[k])) ]_vars

C8_Witness ==
    /\ pc = "loaded"
    /\ ~env_data.ok
    /\ env_reads = 1
    /\ Len(files_read) = 2
    /\ errors[1] = EnvFileName("Ara")
    /\ "Dongsan" \notin disk_env
    /\ disk_form = "NFD"

\* C9: when load_growth_data runs on a workbook, the mapping has one table
\* per sheet, in sheet order; every row carries the sheet name as school and
\* the reference table's target EC of that name, or the null EC when the
\* name is not one of the four schools; such a sheet is in the mapping like
\* the others and the load does not fail.
C9_GrowthLoaderTagsEverySheet ==
    [][ (pc = "start" /\ pc' = "loaded" /\ ~cache_growth.set /\ disk_xlsx.present) =>
          /\ growth_data'.ok
          /\ Len(growth_data'.items) = Len(disk_xlsx.sheets)
          /\ \A k \in 1..Len(disk_xlsx.sheets) :
                LET sheet == disk_xlsx.sheets[k]
                    df    == growth_data'.items[k].df
                IN  /\ growth_data'.items[k].key = sheet.name
                    /\ Len(df) = Len(sheet.rows)
                    /\ \A j \in 1..Len(df) :
                          /\ df[j].weight = sheet.rows[j].weight
                          /\ df[j].school = sheet.name
                          /\ sheet.name \in Schools => df[j].ec = SCHOOL_EC_INFO[sheet.name]
                          /\ sheet.name \notin Schools => df[j].ec = NoneEC ]_vars

C9_Witness ==
    /\ pc = "loaded"
    /\ growth_data.ok
    /\ Len(growth_data.items) = 5
    /\ growth_data.items[5].key = "Etc"
    /\ growth_data.items[5].df # <<>>
    /\ growth_data.items[5].df[1].ec = NoneEC
    /\ growth_data.items[1].df[1].ec = 1

\* C10: in a run that goes past the overview tab every growth sheet is one
\* of the four schools and every growth record has a target EC; a run whose
\* workbook has another sheet passes the gate and ends in the overview tab
\* with KeyError, nothing of the environment and growth tabs drawn; hence
\* the per-EC counts add up to the overview's total whenever both are shown.
C10_UnknownSheetStopsAtOverview ==
    \A rows \in {AllRows(growth_data.items)} :
    /\ (pc \in {"tab2", "tab3", "done"} \/ rendered \cap {"avg_chart", "cards"} # {})
          => /\ KeySet(growth_data.items) \subseteq Schools
             /\ \A j \in 1..Len(rows) : rows[j].ec # NoneEC
    /\ (pc \in {"crashed", "tab2", "tab3", "done"} /\ ~(KeySet(growth_data.items) \subseteq Schools))
          => /\ pc = "crashed"
             /\ exception = "KeyError"
             /\ env_data.ok /\ growth_data.ok
             /\ "sidebar" \in rendered
             /\ rendered \cap {"overview", "avg_chart", "time_series", "csv_download",
                               "cards", "ec_charts", "xlsx_download"} = {}
    /\ ("cards" \in rendered /\ "overview" \in rendered)
          => SumOver(ec_counts, LAMBDA g : g.n) = overview.total

C10_Witness ==
    /\ pc = "crashed"
    /\ exception = "KeyError"
    /\ growth_data.ok
    /\ "Etc" \in KeySet(growth_data.items)
    /\ Len(growth_data.items) = 5
    /\ rendered = {"sidebar", "title", "tabs", "tab1_intro"}

====
